---- MODULE Spec2Model ----
(***************************************************************************)
(* Model of flopy.discretization.vertexgrid.VertexGrid: the geometry cache *)
(* (xyzcellcenters / xyzvertices and the _copy_cache flag), the cell       *)
(* vertex accessor, the point locator (intersect) and the layer array      *)
(* projector (get_plottable_layer_array).                                  *)
(*                                                                         *)
(* Coordinates are integers on a lattice in which a "unit" cell has side   *)
(* 2, so that the cell centres are lattice points too.  Rotations are      *)
(* counted in quarter turns, which map the lattice onto itself.            *)
(*                                                                         *)
(* The code computes world coordinates in double precision, where the      *)
(* cosine of a quarter turn is 6.1e-17 and not 0.  A computed coordinate   *)
(* is therefore a lattice value plus a rounding residue far below the      *)
(* 1e-9 tolerance of the containment test.  The cache and the results hold *)
(* the lattice value; the residue is modelled where the code compares a    *)
(* computed coordinate exactly, in the bounding-box test of intersect.     *)
(***************************************************************************)
EXTENDS Integers, Sequences, FiniteSets

VARIABLES
    _vertices,    \* self._vertices : rows <<iv, x, y>>
    _cell2d,      \* self._cell2d   : rows <<icell2d, xc, yc, ncvert, iv...>>, None padded
    _top,         \* self._top      : [ncpl]
    _botm,        \* self._botm     : [nlay][ncpl]
    _xoff,        \* Grid._xoff
    _yoff,        \* Grid._yoff
    _angrot,      \* Grid._angrot, in quarter turns
    _cache_dict,  \* Grid._cache_dict : cache_index -> CachedData
    _copy_cache,  \* Grid._copy_cache
    _polygons,    \* Grid._polygons
    result,       \* what the last call handed back to its caller
    pending       \* the call of a pure query the caller is about to make

topology == <<_vertices, _cell2d, _top, _botm>>
frame == <<_xoff, _yoff, _angrot>>
vars == <<_vertices, _cell2d, _top, _botm, _xoff, _yoff, _angrot,
          _cache_dict, _copy_cache, _polygons, result, pending>>

-----------------------------------------------------------------------------
(* Bounds *)

MaxFrame == 1      \* reference frames have xoff + yoff + angrot <= MaxFrame
MaxDim == 2        \* axis lengths of client arrays are drawn from 1..MaxDim
QueryPad == 1      \* query points reach QueryPad lattice steps outside the grid's extent

-----------------------------------------------------------------------------
(* Python values *)

None == -1         \* the padding value of ragged cell2d rows; no id or coordinate is negative
NaN == -99         \* np.nan, the sentinel of a forgiven failed intersect

Range(s) == {s[i] : i \in DOMAIN s}

Min(S) == CHOOSE m \in S : \A n \in S : m <= n

Max(S) == CHOOSE m \in S : \A n \in S : m >= n

RECURSIVE hstack(_)
hstack(ss) == IF ss = <<>> THEN <<>> ELSE Head(ss) \o hstack(Tail(ss))

\* seq[i] for a Python list: negative indices count from the end.
PyInRange(seq, i) == -Len(seq) <= i /\ i < Len(seq)

PyIndex(seq, i) == IF i >= 0 THEN seq[i + 1] ELSE seq[Len(seq) + i + 1]

-----------------------------------------------------------------------------
(* Topology fixtures: two cells side by side sharing the edge x = 2.       *)

VertexTable ==
    << <<0, 0, 0>>, <<1, 2, 0>>, <<2, 4, 0>>,
       <<3, 0, 2>>, <<4, 2, 2>>, <<5, 4, 2>> >>

Cell0Rings == { <<0, 1, 4, 3>>,      \* counter-clockwise
                <<0, 3, 4, 1>> }     \* clockwise

Cell1Rings == { <<1, 2, 5, 4>>,      \* counter-clockwise square
                <<1, 4, 5, 2>>,      \* clockwise square
                <<1, 2, 4, None>> }  \* counter-clockwise triangle, padded

DanglingRing == <<1, 2, 9, 4>>       \* vertex 9 is not in the vertex table

Cell2dTable(r0, r1) ==
    << <<0, 1, 1, 4>> \o r0, <<1, 3, 1, 4>> \o r1 >>

\* Layers that step up from cell 0 to cell 1, on two layers and on one.
Elevations ==
    { [top |-> <<4, 8>>, botm |-> << <<2, 6>>, <<0, 4>> >>],
      [top |-> <<4, 8>>, botm |-> << <<2, 6>> >>] }

\* The same two squares numbered from the right: cell 0 is the square on
\* the right of the shared edge, cell 1 the one on the left.
SwappedTable ==
    << <<0, 3, 1, 4, 1, 2, 5, 4>>, <<1, 1, 1, 4, 0, 1, 4, 3>> >>

Cell2dTables ==
    {Cell2dTable(r0, r1) : r0 \in Cell0Rings, r1 \in Cell1Rings} \cup {SwappedTable}

-----------------------------------------------------------------------------
(* Accessors *)

nlay == Len(_botm)

ncpl == Len(_botm[1])

nnodes == nlay * ncpl

cell2d == [i \in DOMAIN _cell2d |-> SelectSeq(_cell2d[i], LAMBDA ivt : ivt # None)]

shape == <<nlay, ncpl>>

top_botm == <<_top>> \o _botm

\* Rotation by rot quarter turns (counter-clockwise) about the origin, then
\* translation by the offset.
transform(x, y, xoff, yoff, rot) ==
    LET r == rot % 4
        xr == IF r = 0 THEN x ELSE IF r = 1 THEN -y ELSE IF r = 2 THEN -x ELSE y
        yr == IF r = 0 THEN y ELSE IF r = 1 THEN x ELSE IF r = 2 THEN -y ELSE -x
    IN  <<xr + xoff, yr + yoff>>

get_coords(x, y) == transform(x, y, _xoff, _yoff, _angrot)

\* get_coords on two equally long coordinate lists, element-wise.
get_coords_list(xs, ys) ==
    << [i \in DOMAIN xs |-> get_coords(xs[i], ys[i])[1]],
       [i \in DOMAIN xs |-> get_coords(xs[i], ys[i])[2]] >>

\* Rounding residues are counted in thousandths of 2^-54: the spacing of
\* the doubles is 4000 in [1, 2), 8000 in [2, 4) and so on, and
\* cos(pi / 2) = 6.123e-17 is 1103.

\* The largest power of two that is not above a, for a >= 1.
RECURSIVE binade(_)
binade(a) == IF a < 2 THEN 1 ELSE 2 * binade(a \div 2)

\* d / q rounded to the nearest integer, a tie to the even one.
round_half_even(d, q) ==
    LET m == d \div q
        rem == d - m * q
        odd == m # 2 * (m \div 2)
    IN  IF 2 * rem > q \/ (2 * rem = q /\ odd) THEN m + 1 ELSE m

\* The residue of the double nearest to n + r, for a lattice value n and a
\* residue r: a value next to 0 is kept as it is, a value next to n # 0 is
\* rounded to the spacing of the doubles on its side of n.
fl(n, r) ==
    IF n = 0 \/ r = 0 THEN r
    ELSE LET a == IF n > 0 THEN n ELSE 0 - n
             sg == IF n > 0 THEN 1 ELSE 0 - 1
             d == r * sg
             ulp == IF d >= 0 \/ a # binade(a) THEN 4000 * binade(a)
                    ELSE 2000 * binade(a)
         IN  sg * round_half_even(d, ulp) * ulp

\* np.cos and np.sin of rot quarter turns (angrot * pi / 180): the lattice
\* value and the residue in multiples of cos(pi / 2).  The angle handed to
\* them is rot times the double nearest pi / 2.
quarter(rot) ==
    LET r == rot % 4
        cl == IF r = 0 THEN 1 ELSE IF r = 2 THEN 0 - 1 ELSE 0
        sl == IF r = 1 THEN 1 ELSE IF r = 3 THEN 0 - 1 ELSE 0
    IN  [cos |-> <<cl, rot * sl>>, sin |-> <<sl, 0 - rot * cl>>]

\* The rounding residues of the two doubles transform computes where the
\* lattice has transform(x, y, xoff, yoff, rot):
\*   xp = x * cos - y * sin;  yp = x * sin + y * cos;  xp += xoff;  yp += yoff
transform_ulp(x, y, xoff, yoff, rot) ==
    LET c == quarter(rot).cos
        s == quarter(rot).sin
        xn == x * c[1] - y * s[1]
        yn == x * s[1] + y * c[1]
        xr == fl(xn, 1103 * (x * c[2] - y * s[2]))
        yr == fl(yn, 1103 * (x * s[2] + y * c[2]))
    IN  <<fl(xn + xoff, xr), fl(yn + yoff, yr)>>

get_coords_ulp(x, y) == transform_ulp(x, y, _xoff, _yoff, _angrot)

_has_ref_coordinates == _xoff # 0 \/ _yoff # 0 \/ _angrot # 0

\* The elevation-midpoint routine: layer boundaries and layer midpoints.
_zcoords ==
    << top_botm,
       [l \in 1..nlay |->
           [c \in 1..ncpl |-> (top_botm[l][c] + top_botm[l + 1][c]) \div 2]] >>

-----------------------------------------------------------------------------
(* Geometry cache *)

CacheKeys == {"cellcenters", "xyzgrid"}

CachedData(d) == [present |-> TRUE, data |-> d, out_of_date |-> FALSE]

NoCachedData == [present |-> FALSE, data |-> <<>>, out_of_date |-> FALSE]

vertexdict ==
    [iv \in {v[1] : v \in Range(_vertices)} |->
        LET i == Max({k \in DOMAIN _vertices : _vertices[k][1] = iv})
        IN  <<_vertices[i][2], _vertices[i][3]>>]

\* vertexdict[ix] raises KeyError for a vertex number that is not in the table.
BuildRaises ==
    \E i \in DOMAIN _cell2d : \E j \in 5..Len(_cell2d[i]) :
        /\ _cell2d[i][j] # None
        /\ \A k \in DOMAIN _vertices : _vertices[k][1] # _cell2d[i][j]

\* The body of _build_grid_geometry_info for the 2-D case, given the cell2d
\* rows without padding, the vertex dictionary and the result of _zcoords.
BuildFrom(c2d, vdict, zc) ==
    LET xcenters == [i \in DOMAIN c2d |-> c2d[i][2]]
        ycenters == [i \in DOMAIN c2d |-> c2d[i][3]]
        vert_number(i) == SubSeq(c2d[i], 5, Len(c2d[i]))
        xcellvert(i) == [j \in DOMAIN vert_number(i) |-> vdict[vert_number(i)[j]][1]]
        ycellvert(i) == [j \in DOMAIN vert_number(i) |-> vdict[vert_number(i)[j]][2]]
        cc == IF _has_ref_coordinates THEN get_coords_list(xcenters, ycenters)
              ELSE <<xcenters, ycenters>>
        cellvert(i) == IF _has_ref_coordinates
                       THEN get_coords_list(xcellvert(i), ycellvert(i))
                       ELSE <<xcellvert(i), ycellvert(i)>>
    IN  [cellcenters |-> CachedData(<<cc[1], cc[2], zc[2]>>),
         xyzgrid |-> CachedData(<<[i \in DOMAIN c2d |-> cellvert(i)[1]],
                                  [i \in DOMAIN c2d |-> cellvert(i)[2]],
                                  zc[1]>>)]

_build_grid_geometry_info == BuildFrom(cell2d, vertexdict, _zcoords)

\* The rounding residues of the vertex rings _build_grid_geometry_info
\* stores under "xyzgrid": those of get_coords when a reference frame is
\* set, none when the vertex table's coordinates are stored as they are.
RingUlps(c2d, vdict) ==
    LET vert_number(i) == SubSeq(c2d[i], 5, Len(c2d[i]))
        ulp(i, j) == IF _has_ref_coordinates
                     THEN get_coords_ulp(vdict[vert_number(i)[j]][1],
                                         vdict[vert_number(i)[j]][2])
                     ELSE <<0, 0>>
    IN  << [i \in DOMAIN c2d |-> [j \in DOMAIN vert_number(i) |-> ulp(i, j)[1]]],
           [i \in DOMAIN c2d |-> [j \in DOMAIN vert_number(i) |-> ulp(i, j)[2]]] >>

NeedsBuild(cache_index) ==
    \/ ~_cache_dict[cache_index].present
    \/ _cache_dict[cache_index].out_of_date

\* What a read hands out of cache c: the owned copy (equal data) when copy
\* is set, else the shared view.
Handout(c, cache_index, copy) ==
    [raised |-> "", cache |-> c, val |-> c[cache_index].data, shared |-> ~copy]

\* One read of a derived bundle with the flag at copy.
CacheRead(cache_index, copy) ==
    IF NeedsBuild(cache_index)
    THEN IF BuildRaises
         THEN [raised |-> "KeyError", cache |-> _cache_dict, val |-> <<>>, shared |-> FALSE]
         ELSE Handout(_build_grid_geometry_info, cache_index, copy)
    ELSE Handout(_cache_dict, cache_index, copy)

xyzcellcenters(copy) == CacheRead("cellcenters", copy)

xyzvertices(copy) == CacheRead("xyzgrid", copy)

Res(op, args, raised, val, shared) ==
    [op |-> op, args |-> args, raised |-> raised, val |-> val,
     shared |-> shared, mutated |-> FALSE]

-----------------------------------------------------------------------------
(* Operations on the cache.  Each returns what the call raised (or ""),    *)
(* the cache and the flag it leaves behind and the value it returns.       *)

Ret(raised, cache, copy_cache, val) ==
    [raised |-> raised, cache |-> cache, copy_cache |-> copy_cache, val |-> val]

zip(xs, ys) == [i \in 1..Min({Len(xs), Len(ys)}) |-> <<xs[i], ys[i]>>]

\* extent, given the no-copy read of the vertex rings it starts with.
ExtentOf(r) ==
    IF r.raised # "" THEN Ret(r.raised, r.cache, FALSE, <<>>)
    ELSE LET xvertices == Range(hstack(r.val[1]))
             yvertices == Range(hstack(r.val[2]))
         IN  Ret("", r.cache, TRUE,
                 <<Min(xvertices), Max(xvertices), Min(yvertices), Max(yvertices)>>)

extent == ExtentOf(xyzvertices(FALSE))

GridLinesOf(r) ==
    IF r.raised # "" THEN Ret(r.raised, r.cache, FALSE, <<>>)
    ELSE LET cell_lines(xv, yv) ==
                 [ix \in DOMAIN xv |->
                     << <<PyIndex(xv, ix - 2), PyIndex(yv, ix - 2)>>, <<xv[ix], yv[ix]>> >>]
         IN  Ret("", r.cache, TRUE,
                 hstack([ncell \in DOMAIN r.val[1] |->
                            cell_lines(r.val[1][ncell], r.val[2][ncell])]))

grid_lines == GridLinesOf(xyzvertices(FALSE))

\* Mutant of wrap_cellid: the loop steps back by one cell, not by one layer.
RECURSIVE wrap_cellid_by_one(_)
wrap_cellid_by_one(cellid) ==
    IF cellid >= ncpl
    THEN IF cellid > nnodes
         THEN [raised |-> "IndexError", cellid |-> cellid]
         ELSE wrap_cellid_by_one(cellid - 1)
    ELSE [raised |-> "", cellid |-> cellid]

\* The while loop of get_cell_vertices.
RECURSIVE wrap_cellid(_)
wrap_cellid(cellid) ==
    IF cellid >= ncpl
    THEN IF cellid > nnodes
         THEN [raised |-> "IndexError", cellid |-> cellid]
         ELSE wrap_cellid(cellid - ncpl)
    ELSE [raised |-> "", cellid |-> cellid]

\* get_cell_vertices after its loop returned w, with r the no-copy read.
CellVertsOf(w, r) ==
    IF w.raised # "" THEN Ret(w.raised, _cache_dict, _copy_cache, <<>>)
    ELSE IF r.raised # "" THEN Ret(r.raised, r.cache, FALSE, <<>>)
    ELSE IF ~PyInRange(r.val[1], w.cellid) THEN Ret("IndexError", r.cache, FALSE, <<>>)
    ELSE Ret("", r.cache, TRUE,
             zip(PyIndex(r.val[1], w.cellid), PyIndex(r.val[2], w.cellid)))

get_cell_vertices(cellid) == CellVertsOf(wrap_cellid(cellid), xyzvertices(FALSE))

NoPolygons == <<>>

MapPolygonsOf(stale, r) ==
    IF r.raised # ""
    THEN [raised |-> r.raised, cache |-> r.cache, copy_cache |-> _copy_cache,
          polygons |-> _polygons]
    ELSE IF stale \/ _polygons = NoPolygons
    THEN [raised |-> "", cache |-> r.cache, copy_cache |-> TRUE,
          polygons |-> [nn \in 1..ncpl |-> zip(r.val[1][nn], r.val[2][nn])]]
    ELSE [raised |-> "", cache |-> r.cache, copy_cache |-> _copy_cache,
          polygons |-> _polygons]

map_polygons == MapPolygonsOf(NeedsBuild("xyzgrid"), xyzvertices(_copy_cache))

_require_cache_updates ==
    [k \in CacheKeys |-> [_cache_dict[k] EXCEPT !.out_of_date = _cache_dict[k].present]]

-----------------------------------------------------------------------------
(* The grid as a state machine: a caller invokes one operation at a time.  *)

\* The reference frames the caller sets: <<xoff, yoff, angrot>>.
Frames ==
    {f \in (0..MaxFrame) \X (0..MaxFrame) \X (0..MaxFrame) :
        f[1] + f[2] + f[3] <= MaxFrame}

\* The grids the caller constructs: two squares on two layers and on
\* three, a square and a padded triangle on one layer, and a cell with a
\* dangling vertex.
Topologies ==
    { [cell2d |-> Cell2dTable(<<0, 1, 4, 3>>, <<1, 2, 5, 4>>),
       top |-> <<4, 8>>, botm |-> << <<2, 6>>, <<0, 4>> >>],
      [cell2d |-> Cell2dTable(<<0, 1, 4, 3>>, <<1, 2, 5, 4>>),
       top |-> <<6, 10>>, botm |-> << <<4, 8>>, <<2, 6>>, <<0, 4>> >>],
      [cell2d |-> Cell2dTable(<<0, 3, 4, 1>>, <<1, 2, 4, None>>),
       top |-> <<4, 8>>, botm |-> << <<2, 6>> >>],
      [cell2d |-> Cell2dTable(<<0, 1, 4, 3>>, DanglingRing),
       top |-> <<4, 4>>, botm |-> << <<2, 2>> >>] }

\* The grid right after construction.
Constructed ==
    /\ _cache_dict = [k \in CacheKeys |-> NoCachedData]
    /\ _copy_cache = TRUE
    /\ _polygons = NoPolygons
    /\ result = Res("init", <<>>, "", <<>>, FALSE)

NoCall == [op |-> "none"]

Init ==
    /\ _vertices = VertexTable
    /\ \E t \in Topologies : _cell2d = t.cell2d /\ _top = t.top /\ _botm = t.botm
    /\ \E f \in Frames : _xoff = f[1] /\ _yoff = f[2] /\ _angrot = f[3]
    /\ Constructed
    /\ pending = NoCall

ReadXyzvertices ==
    \E r \in {xyzvertices(_copy_cache)} :
        /\ _cache_dict' = r.cache
        /\ result' = Res("xyzvertices", <<>>, r.raised, r.val, r.shared)
        /\ UNCHANGED <<pending, topology, frame, _copy_cache, _polygons>>

ReadXyzcellcenters ==
    \E r \in {xyzcellcenters(_copy_cache)} :
        /\ _cache_dict' = r.cache
        /\ result' = Res("xyzcellcenters", <<>>, r.raised, r.val, r.shared)
        /\ UNCHANGED <<pending, topology, frame, _copy_cache, _polygons>>

\* The caller writes 77 into the array the last read handed out.  An owned
\* copy is the caller's alone; the shared view is the cache's own data.
CallerMutates ==
    /\ result.op \in {"xyzvertices", "xyzcellcenters"}
    /\ result.raised = ""
    /\ ~result.mutated
    /\ result' = [result EXCEPT !.mutated = TRUE]
    /\ _cache_dict' =
         IF ~result.shared THEN _cache_dict
         ELSE IF result.op = "xyzvertices"
         THEN [_cache_dict EXCEPT !.xyzgrid.data[1][1][1] = 77]
         ELSE [_cache_dict EXCEPT !.cellcenters.data[1][1] = 77]
    /\ UNCHANGED <<pending, topology, frame, _copy_cache, _polygons>>

ReadExtent ==
    \E r \in {extent} :
        /\ _cache_dict' = r.cache
        /\ _copy_cache' = r.copy_cache
        /\ result' = Res("extent", <<>>, r.raised, r.val, FALSE)
        /\ UNCHANGED <<pending, topology, frame, _polygons>>

ReadGridLines ==
    \E r \in {grid_lines} :
        /\ _cache_dict' = r.cache
        /\ _copy_cache' = r.copy_cache
        /\ result' = Res("grid_lines", <<>>, r.raised, r.val, FALSE)
        /\ UNCHANGED <<pending, topology, frame, _polygons>>

CellIds == (0 - ncpl - 1)..(nnodes + 1)

CallGetCellVertices ==
    \E cellid \in CellIds :
        \E r \in {get_cell_vertices(cellid)} :
            /\ _cache_dict' = r.cache
            /\ _copy_cache' = r.copy_cache
            /\ result' = Res("get_cell_vertices", <<cellid>>, r.raised, r.val, FALSE)
            /\ UNCHANGED <<pending, topology, frame, _polygons>>

ReadMapPolygons ==
    \E r \in {map_polygons} :
        /\ _cache_dict' = r.cache
        /\ _copy_cache' = r.copy_cache
        /\ _polygons' = r.polygons
        /\ result' = Res("map_polygons", <<>>, r.raised,
                         IF r.raised = "" THEN r.polygons ELSE <<>>, FALSE)
        /\ UNCHANGED <<pending, topology, frame>>

set_coord_info ==
    \E f \in Frames :
        /\ _xoff' = f[1]
        /\ _yoff' = f[2]
        /\ _angrot' = f[3]
        /\ _cache_dict' = _require_cache_updates
        /\ result' = Res("set_coord_info", <<>>, "", <<>>, FALSE)
        /\ UNCHANGED <<pending, topology, _copy_cache, _polygons>>

Next ==
    \/ ReadXyzvertices
    \/ ReadXyzcellcenters
    \/ CallerMutates
    \/ ReadExtent
    \/ ReadGridLines
    \/ CallGetCellVertices
    \/ ReadMapPolygons
    \/ set_coord_info

Spec == Init /\ [][Next]_vars

\* The cell vertex accessor among the operations that change what it reads.
NextVertices ==
    \/ CallGetCellVertices
    \/ ReadXyzvertices
    \/ CallerMutates
    \/ set_coord_info

SpecVertices == Init /\ [][NextVertices]_vars

-----------------------------------------------------------------------------
(* Point locator *)

\* Clockwise test of a ring given as two coordinate lists: the sign of the
\* shoelace sum over the closed ring.
is_clockwise(xa, ya) ==
    LET n == Len(xa)
        nxt(i) == IF i = n THEN 1 ELSE i + 1
        term(i) == (xa[nxt(i)] - xa[i]) * (ya[nxt(i)] + ya[i])
        RECURSIVE sum(_)
        sum(i) == IF i = 0 THEN 0 ELSE term(i) + sum(i - 1)
    IN  sum(n) > 0

\* Path(ring).contains_point(p, radius) for a convex ring: a positive radius
\* moves the outline to the right of the direction of travel, so it grows a
\* counter-clockwise ring and shrinks a clockwise one; a negative radius
\* does the opposite.  The radius is far below the lattice step: a grown
\* ring gains exactly its boundary, a shrunk ring loses exactly its boundary.
contains_point(xa, ya, x, y, radius) ==
    LET n == Len(xa)
        nxt(i) == IF i = n THEN 1 ELSE i + 1
        cross(i) == (xa[nxt(i)] - xa[i]) * (y - ya[i]) - (ya[nxt(i)] - ya[i]) * (x - xa[i])
        clockwise == is_clockwise(xa, ya)
        side(i) == IF clockwise THEN 0 - cross(i) ELSE cross(i)
        grown == (radius > 0) = ~clockwise
    IN  IF grown THEN \A i \in 1..n : side(i) >= 0
        ELSE \A i \in 1..n : side(i) > 0

\* The radius intersect passes to contains_point, in units of 1e-9.
tolerance(xa, ya) == IF is_clockwise(xa, ya) THEN -1 ELSE 1

\* The layer loop of intersect: the first layer from lay on whose top and
\* bottom bracket z in cell icell2d (0-based), or nlay when there is none.
RECURSIVE first_layer(_, _, _)
first_layer(lay, icell2d, z) ==
    IF lay >= nlay THEN nlay
    ELSE IF top_botm[lay + 1][icell2d + 1] >= z /\ z >= top_botm[lay + 2][icell2d + 1]
         THEN lay
         ELSE first_layer(lay + 1, icell2d, z)

\* a <= b for the doubles with lattice values a, b and residues ar, br.
fle(a, ar, b, br) == a < b \/ (a = b /\ ar <= br)

\* The bounding-box test of intersect on one ring: np.any(x <= xa) and
\* np.any(x >= xa) and the same for y, on the doubles as they are.  The
\* rings are xa, ya with residues xu, yu; the point is p with residues u.
inbox(xa, ya, xu, yu, p, u) ==
    /\ \E i \in DOMAIN xa : fle(p[1], u[1], xa[i], xu[i])
    /\ \E i \in DOMAIN xa : fle(xa[i], xu[i], p[1], u[1])
    /\ \E i \in DOMAIN ya : fle(p[2], u[2], ya[i], yu[i])
    /\ \E i \in DOMAIN ya : fle(ya[i], yu[i], p[2], u[2])

\* The cell loop of intersect from cell icell2d (0-based) on: the value the
\* loop returns, or <<>> when the loop runs out.  xv, yv are the cached
\* rings and uv their residues, p is the point and u its residues.
RECURSIVE cell_loop(_, _, _, _, _, _, _)
cell_loop(icell2d, xv, yv, uv, p, u, z) ==
    IF icell2d >= ncpl THEN <<>>
    ELSE LET xa == xv[icell2d + 1]
             ya == yv[icell2d + 1]
             radius == tolerance(xa, ya)
         IN  IF /\ inbox(xa, ya, uv[1][icell2d + 1], uv[2][icell2d + 1], p, u)
                /\ contains_point(xa, ya, p[1], p[2], radius)
             THEN IF z = None THEN <<icell2d>>
                  ELSE IF first_layer(0, icell2d, z) < nlay
                       THEN <<first_layer(0, icell2d, z), icell2d>>
                       ELSE cell_loop(icell2d + 1, xv, yv, uv, p, u, z)
             ELSE cell_loop(icell2d + 1, xv, yv, uv, p, u, z)

\* Mutant of IntersectOf: a forgiven failure returns a single NaN also when
\* z was supplied.
IntersectOf_single_nan(r, uv, p, u, z, forgive) ==
    IF r.raised # "" THEN [raised |-> r.raised, cache |-> r.cache, val |-> <<>>]
    ELSE LET found == cell_loop(0, r.val[1], r.val[2], uv, p, u, z)
         IN  IF found # <<>> THEN [raised |-> "", cache |-> r.cache, val |-> found]
             ELSE IF forgive
             THEN [raised |-> "", cache |-> r.cache, val |-> <<NaN>>]
             ELSE [raised |-> "Exception", cache |-> r.cache, val |-> <<>>]

\* intersect once the point p is in world coordinates with residues u, and
\* r is the read of xyzvertices with residues uv.
IntersectOf(r, uv, p, u, z, forgive) ==
    IF r.raised # "" THEN [raised |-> r.raised, cache |-> r.cache, val |-> <<>>]
    ELSE LET found == cell_loop(0, r.val[1], r.val[2], uv, p, u, z)
         IN  IF found # <<>> THEN [raised |-> "", cache |-> r.cache, val |-> found]
             ELSE IF forgive
             THEN [raised |-> "", cache |-> r.cache,
                   val |-> IF z # None THEN <<NaN, NaN>> ELSE <<NaN>>]
             ELSE [raised |-> "Exception", cache |-> r.cache, val |-> <<>>]

intersect(x, y, z, local, forgive) ==
    IntersectOf(xyzvertices(_copy_cache), RingUlps(cell2d, vertexdict),
                IF local THEN get_coords(x, y) ELSE <<x, y>>,
                IF local THEN get_coords_ulp(x, y) ELSE <<0, 0>>, z, forgive)

-----------------------------------------------------------------------------
(* The locator as a function of the grid and the query: the caller builds  *)
(* a grid, then makes one intersect call.                                   *)

\* The corners of the grid's local extent in world coordinates.
WorldCorners == {get_coords(cx, cy) : cx \in {0, 4}, cy \in {0, 2}}

QueryXs == (Min({c[1] : c \in WorldCorners}) - QueryPad)..(Max({c[1] : c \in WorldCorners}) + QueryPad)
QueryYs == (Min({c[2] : c \in WorldCorners}) - QueryPad)..(Max({c[2] : c \in WorldCorners}) + QueryPad)
QueryZs == {None, 2, 5}

InitLocate ==
    /\ _vertices = VertexTable
    /\ _cell2d \in Cell2dTables
    /\ \E e \in Elevations : _top = e.top /\ _botm = e.botm
    /\ \E f \in Frames : _xoff = f[1] /\ _yoff = f[2] /\ _angrot = f[3]
    /\ Constructed
    /\ \E x \in QueryXs, y \in QueryYs, z \in QueryZs, local \in BOOLEAN, forgive \in BOOLEAN :
          pending = [op |-> "intersect", x |-> x, y |-> y, z |-> z,
                     local |-> local, forgive |-> forgive]

CallIntersect ==
    /\ pending.op = "intersect"
    /\ \E r \in {intersect(pending.x, pending.y, pending.z, pending.local, pending.forgive)} :
          /\ _cache_dict' = r.cache
          /\ result' = Res("intersect",
                           <<pending.x, pending.y, pending.z, pending.local, pending.forgive>>,
                           r.raised, r.val, FALSE)
    /\ pending' = NoCall
    /\ UNCHANGED <<topology, frame, _copy_cache, _polygons>>

NextLocate == CallIntersect

SpecLocate == InitLocate /\ [][NextLocate]_vars

-----------------------------------------------------------------------------
(* Layer array projector.  A client array is its shape and its elements in *)
(* row-major order.                                                         *)

Array(shp, flat) == [shape |-> shp, flat |-> flat]

Raised(kind) == [raised |-> kind, a |-> Array(<<>>, <<>>)]

Returned(a) == [raised |-> "", a |-> a]

\* np.squeeze(a, axis=axis) for an axis (0-based) of size 1.
squeeze(a, axis) ==
    Array([i \in 1..(Len(a.shape) - 1) |->
              IF i <= axis THEN a.shape[i] ELSE a.shape[i + 1]], a.flat)

\* a.reshape(shp)
reshape(a, shp) == Array(shp, a.flat)

\* a[layer, :] for a rank-2 array and a layer >= 0.
take_layer(a, layer) ==
    IF layer >= a.shape[1] THEN Raised("IndexError")
    ELSE Returned(Array(<<a.shape[2]>>,
                        SubSeq(a.flat, layer * a.shape[2] + 1, (layer + 1) * a.shape[2])))

get_plottable_layer_shape == SubSeq(shape, 2, Len(shape))

\* Mutant of plotarray_ndim3: only the leading axis may have size 1.
plotarray_ndim3_leading_only(a, layer) ==
    IF a.shape[1] = 1 THEN take_layer(squeeze(a, 0), layer)
    ELSE Raised("ValueError")

\* The branch of get_plottable_layer_array for a.ndim == 3.
plotarray_ndim3(a, layer) ==
    IF a.shape[1] = 1 THEN take_layer(squeeze(a, 0), layer)
    ELSE IF a.shape[2] = 1 THEN take_layer(squeeze(a, 1), layer)
    ELSE Raised("ValueError")

\* Mutant of plotarray_ndim1: the nodal array is not cut into layers.
plotarray_ndim1_no_reshape(a, layer) == Returned(a)

\* The branch of get_plottable_layer_array for a.ndim == 1.
plotarray_ndim1(a, layer) ==
    IF a.shape[1] = nnodes THEN take_layer(reshape(a, <<nlay, ncpl>>), layer)
    ELSE Returned(a)

\* The final assert of get_plottable_layer_array on what the branches left.
assert_required_shape(p) ==
    IF p.raised # "" THEN [raised |-> p.raised, val |-> <<>>]
    ELSE IF p.a.shape = get_plottable_layer_shape THEN [raised |-> "", val |-> p.a.flat]
    ELSE [raised |-> "AssertionError", val |-> <<>>]

get_plottable_layer_array(a, layer) ==
    assert_required_shape(
        IF Len(a.shape) = 3 THEN plotarray_ndim3(a, layer)
        ELSE IF Len(a.shape) = 2 THEN take_layer(a, layer)
        ELSE IF Len(a.shape) = 1 THEN plotarray_ndim1(a, layer)
        ELSE Raised("ValueError"))

-----------------------------------------------------------------------------
(* The projector as a function of the grid's shape and the client array:   *)
(* the caller builds a grid of nlay by ncpl cells, then projects one array. *)

Dims == 1..MaxDim

RECURSIVE Product(_)
Product(shp) == IF shp = <<>> THEN 1 ELSE Head(shp) * Product(Tail(shp))

\* Client arrays of rank 0 to 4; each element is its own row-major position.
ClientShapes ==
    {<<>>, <<1, 1, 1, 1>>}
    \cup {<<n>> : n \in 1..(MaxDim * MaxDim + 1)}
    \cup {<<d1, d2>> : d1 \in Dims, d2 \in Dims}
    \cup {<<d1, d2, d3>> : d1 \in Dims, d2 \in Dims, d3 \in Dims}

ClientArray(shp) == Array(shp, [i \in 1..Product(shp) |-> 10 + i])

InitProject ==
    /\ _vertices = VertexTable
    /\ _cell2d = <<>>
    /\ \E nl \in Dims, nc \in Dims :
          /\ _top = [c \in 1..nc |-> 2 * nl]
          /\ _botm = [l \in 1..nl |-> [c \in 1..nc |-> 2 * (nl - l)]]
    /\ _xoff = 0
    /\ _yoff = 0
    /\ _angrot = 0
    /\ Constructed
    /\ \E shp \in ClientShapes, layer \in 0..MaxDim :
          pending = [op |-> "get_plottable_layer_array", a |-> ClientArray(shp),
                     layer |-> layer]

CallGetPlottableLayerArray ==
    /\ pending.op = "get_plottable_layer_array"
    /\ \E r \in {get_plottable_layer_array(pending.a, pending.layer)} :
          result' = Res("get_plottable_layer_array", <<pending.a, pending.layer>>,
                        r.raised, r.val, FALSE)
    /\ pending' = NoCall
    /\ UNCHANGED <<topology, frame, _cache_dict, _copy_cache, _polygons>>

NextProject == CallGetPlottableLayerArray

SpecProject == InitProject /\ [][NextProject]_vars

-----------------------------------------------------------------------------
(* Properties *)

Reads == {"xyzvertices", "xyzcellcenters"}

\* C1: the copy/no-copy flag is in copy mode whenever control is back with
\* the caller, on every exit path of extent, grid_lines and
\* get_cell_vertices, so that no read by the caller returns the shared view.
C1_FlagRestoredOnEveryExit ==
    /\ _copy_cache = TRUE
    /\ (result.op \in Reads /\ result.raised = "") => ~result.shared

\* C2: get_cell_vertices signals an index error and returns no ring for
\* every cellid >= nnodes, cellid == nnodes included (stated for the grids
\* whose vertex numbers all resolve).
C2_OutOfRangeRaises ==
    (result.op = "get_cell_vertices" /\ result.args[1] >= nnodes /\ ~BuildRaises)
        => (result.raised = "IndexError" /\ result.val = <<>>)

Brackets(lay, icell2d, z) ==
    /\ top_botm[lay + 1][icell2d + 1] >= z
    /\ z >= top_botm[lay + 2][icell2d + 1]

\* The query point of the last intersect call in world coordinates.
QueryPoint ==
    IF result.args[4] THEN get_coords(result.args[1], result.args[2])
    ELSE <<result.args[1], result.args[2]>>

\* C3: when intersect is called with z and returns (layer, cellid), cellid
\* is the cell the same call without z returns and layer is the smallest
\* layer of that cell whose top and bottom bracket z.
C3_LayerOfTheFirstMatchingCell ==
    (/\ result.op = "intersect"
     /\ result.raised = ""
     /\ result.args[3] # None
     /\ result.val # <<NaN, NaN>>)
        => /\ intersect(result.args[1], result.args[2], None,
                        result.args[4], result.args[5]).val = <<result.val[2]>>
           /\ result.val[1] \in 0..(nlay - 1)
           /\ Brackets(result.val[1], result.val[2], result.args[3])
           /\ \A lay \in 0..(result.val[1] - 1) :
                  ~Brackets(lay, result.val[2], result.args[3])

\* The point (x, y) is inside or on the boundary of the convex ring: it is
\* on one side of every edge, whichever way round the ring runs.
InClosedRing(xa, ya, x, y) ==
    LET n == Len(xa)
        nxt(i) == IF i = n THEN 1 ELSE i + 1
        cross(i) == (xa[nxt(i)] - xa[i]) * (y - ya[i]) - (ya[nxt(i)] - ya[i]) * (x - xa[i])
    IN  \/ \A i \in 1..n : cross(i) >= 0
        \/ \A i \in 1..n : cross(i) <= 0

\* The cells (0-based) whose cached ring holds the last query point.
CellsHolding ==
    {i \in 0..(ncpl - 1) :
        InClosedRing(_cache_dict.xyzgrid.data[1][i + 1], _cache_dict.xyzgrid.data[2][i + 1],
                     QueryPoint[1], QueryPoint[2])}

\* The last query point is on the edge the two cells share (local x = 2).
OnSharedEdge == \E ly \in 0..2 : QueryPoint = get_coords(2, ly)

\* The rounding residues of the last query point: those of get_coords for
\* a local point, none for a point the caller gave in world coordinates.
QueryUlp ==
    IF result.args[4] THEN get_coords_ulp(result.args[1], result.args[2])
    ELSE <<0, 0>>

\* The double with lattice value n and residue r on one integer scale.
Double(n, r) == n * 1000000 + r

\* The point with coordinate n and residue r lies within the minimum and
\* the maximum of the ring coordinates xa with residues xu.
WithinMinMax(n, r, xa, xu) ==
    LET ds == {Double(xa[i], xu[i]) : i \in DOMAIN xa}
    IN  Min(ds) <= Double(n, r) /\ Double(n, r) <= Max(ds)

\* The cells (0-based) whose stored ring passes the bounding-box test and
\* holds the last query point, boundary included.
CellsPassing ==
    LET uv == RingUlps(cell2d, vertexdict)
    IN  {i \in CellsHolding :
            /\ WithinMinMax(QueryPoint[1], QueryUlp[1],
                            _cache_dict.xyzgrid.data[1][i + 1], uv[1][i + 1])
            /\ WithinMinMax(QueryPoint[2], QueryUlp[2],
                            _cache_dict.xyzgrid.data[2][i + 1], uv[2][i + 1])}

\* C4: intersect without z returns the smallest index of a cell whose ring
\* passes the bounding-box test and holds the point (boundary included); on
\* the edge two cells share that is the lower-indexed cell, whichever way
\* round either ring runs.
C4_LowestCellWins ==
    (/\ result.op = "intersect"
     /\ result.args[3] = None)
        => /\ CellsPassing # {} =>
                  (result.raised = "" /\ result.val = <<Min(CellsPassing)>>)
           /\ OnSharedEdge => (result.raised = "" /\ result.val = <<0>>)

\* C5: when no cell holds the point, intersect raises the location failure
\* if forgive is false, and if forgive is true returns NaN without z and
\* (NaN, NaN) with z; it returns no cell index.
C5_NoCellNoIndex ==
    (/\ result.op = "intersect"
     /\ CellsHolding = {})
        => IF result.args[5]
           THEN /\ result.raised = ""
                /\ result.val = IF result.args[3] = None THEN <<NaN>> ELSE <<NaN, NaN>>
           ELSE /\ result.raised = "Exception"
                /\ result.val = <<>>

C5_Witness ==
    /\ result.op = "intersect"
    /\ CellsHolding = {}
    /\ result.args[5]
    /\ result.args[3] # None
    /\ result.val = <<NaN, NaN>>

IsProjection == result.op = "get_plottable_layer_array"

\* C6 as stated: on a rank-3 array of which neither or both of the first
\* two axes have size 1, get_plottable_layer_array signals an error and
\* returns no array.
C6_ExactlyOneSizeOneAxis ==
    (/\ IsProjection
     /\ Len(result.args[1].shape) = 3
     /\ (result.args[1].shape[1] = 1) = (result.args[1].shape[2] = 1))
        => (result.raised # "" /\ result.val = <<>>)

\* C6 amended: on a rank-3 array get_plottable_layer_array signals the
\* shape error exactly when neither of the first two axes has size 1; when
\* both have size 1 it squeezes the leading axis and treats what is left as
\* the rank-2 array [1][n], returning its n values for layer 0 and n = ncpl.
C6_AtLeastOneSizeOneAxis ==
    (IsProjection /\ Len(result.args[1].shape) = 3)
        => /\ (result.raised = "ValueError")
                <=> (result.args[1].shape[1] # 1 /\ result.args[1].shape[2] # 1)
           /\ (result.args[1].shape[1] = 1 /\ result.args[1].shape[2] = 1)
                => IF result.args[2] >= 1 THEN result.raised = "IndexError"
                   ELSE IF result.args[1].shape[3] # ncpl THEN result.raised = "AssertionError"
                   ELSE result.raised = "" /\ result.val = result.args[1].flat

C6_Witness ==
    /\ IsProjection
    /\ result.args[1].shape = <<1, 1, ncpl>>
    /\ ncpl > 1
    /\ result.args[2] = 0
    /\ result.raised = ""
    /\ result.val = result.args[1].flat

\* C7 as stated: a rank-1 array whose length is neither ncpl nor nlay*ncpl
\* gets the shape error (ValueError), not the error of the final assert.
C7_BadLengthIsShapeError ==
    (/\ IsProjection
     /\ Len(result.args[1].shape) = 1
     /\ result.args[1].shape[1] \notin {ncpl, nnodes})
        => (result.raised = "ValueError" /\ result.val = <<>>)

\* C8: a read of a derived bundle returns the geometry of the current
\* reference frame: the same data as the read before it when nothing was
\* mutated in between (the caller may have written into what that read
\* handed out), and rebuilt data after the offset or rotation changed.
C8_ReadsAreFresh ==
    (result.op \in Reads /\ result.raised = "")
        => result.val =
             _build_grid_geometry_info[IF result.op = "xyzvertices" THEN "xyzgrid"
                                       ELSE "cellcenters"].data

\* Row layer of the nodal data laid out as [nlay][ncpl].
LayerRow(flat, layer) == [j \in 1..ncpl |-> flat[layer * ncpl + j]]

\* C9: for every layer in [0, nlay) the rank-1 array of length nlay*ncpl,
\* the rank-2 array [nlay][ncpl] and the rank-3 array [1][nlay][ncpl] of the
\* same nodal data all project to row layer of the rank-2 array.
C9_LayoutIndependent ==
    (/\ IsProjection
     /\ result.args[2] < nlay
     /\ result.args[1].shape \in {<<nlay * ncpl>>, <<nlay, ncpl>>, <<1, nlay, ncpl>>})
        => /\ result.raised = ""
           /\ result.val = LayerRow(result.args[1].flat, result.args[2])

C9_Witness ==
    /\ IsProjection
    /\ nlay > 1
    /\ ncpl > 1
    /\ result.args[2] = nlay - 1
    /\ result.args[1].shape = <<nlay * ncpl>>
    /\ result.val = LayerRow(result.args[1].flat, nlay - 1)
    /\ result.val # LayerRow(result.args[1].flat, 0)

\* C10: for every cellid in [0, ncpl) and k in [0, nlay),
\* get_cell_vertices(cellid + k*ncpl) returns what get_cell_vertices(cellid)
\* returns: the node index is reduced modulo ncpl before the ring is read.
C10_LayerInvariantVertices ==
    (/\ result.op = "get_cell_vertices"
     /\ result.args[1] \in 0..(nnodes - 1))
        => /\ result.raised = get_cell_vertices(result.args[1] % ncpl).raised
           /\ result.val = get_cell_vertices(result.args[1] % ncpl).val
           /\ \A k \in 0..(nlay - 1) :
                  get_cell_vertices((result.args[1] % ncpl) + k * ncpl).val = result.val

C10_Witness ==
    /\ result.op = "get_cell_vertices"
    /\ result.args[1] = ncpl
    /\ nlay > 1
    /\ result.raised = ""
    /\ result.val = get_cell_vertices(0).val
    /\ result.val # get_cell_vertices(1).val
    /\ _has_ref_coordinates

\* C11: map_polygons is a view over the current geometry cache: after any
\* interleaving of reference-frame mutations and reads, the polygon it
\* returns for each cell i in [0, ncpl) has the vertices get_cell_vertices(i)
\* returns at that moment, never those of a list memoized before the last
\* mutation.
C11_PolygonsFollowTheCache ==
    (result.op = "map_polygons" /\ result.raised = "")
        => /\ Len(result.val) = ncpl
           /\ \A nn \in 0..(ncpl - 1) :
                  result.val[nn + 1] = get_cell_vertices(nn).val

====
